---- MODULE Spec2Model ----
(***************************************************************************)
(* Model of classify_all_natcomm_gemma_006.py: batch classification of     *)
(* data-availability statements with a local LLM.  The model covers        *)
(* call_llama, extract_json, classify_text, process_file, merge_outputs    *)
(* and main, over several successive runs of main on one file system.      *)
(***************************************************************************)
EXTENDS Integers, Sequences, FiniteSets, Bags, TLC

(***************************************************************************)
(* Program constants                                                       *)
(***************************************************************************)
MAX_RETRY == 3
MAX_WORKERS == 6
DATA_COLUMN == <<"d", "a", "t", "a">>

\* The seven labels listed in CATEGORY_PROMPT.
Taxonomy ==
    { "Fully Public Repository Deposition",
      "Public Within Article / Supplement Only",
      "Reuse of Public Third-Party Data Only",
      "Mixed Public Deposit + Author Request",
      "Controlled-Access Repository Data",
      "Author Upon Request Only",
      "No Data Generated / Not Applicable" }

(***************************************************************************)
(* Bounds of the model                                                     *)
(***************************************************************************)
MaxRuns == 2
MaxRows == 2
MaxLen == 6

(***************************************************************************)
(* Texts.  A text (model output, prompt reply) is a sequence of tokens; a  *)
(* token is a fence marker, a brace, a JSON member "k": "v", or prose.     *)
(***************************************************************************)
Tok(t, k, v) == [t |-> t, k |-> k, v |-> v]
FENCE_JSON == Tok("fence_json", "", "")
FENCE == Tok("fence", "", "")
LBRACE == Tok("lbrace", "", "")
RBRACE == Tok("rbrace", "", "")
Prose(w) == Tok("prose", "", w)
Member(k, v) == Tok("member", k, v)

\* A Python string taken as a text: one prose token.
TextOf(s) == <<Prose(s)>>

\* str.replace(marker, ""): every occurrence of the marker is removed.
Replace(text, marker) == SelectSeq(text, LAMBDA tk : tk # marker)

None == <<>>

\* re.search(r"\{.*\}", text, re.DOTALL): leftmost "{", then the longest
\* stretch that still ends in "}", i.e. up to the last "}" after it.
GreedySpan(text) ==
    LET opens == {i \in 1..Len(text) : text[i] = LBRACE}
    IN  IF opens = {} THEN None
        ELSE LET first == CHOOSE i \in opens : \A j \in opens : i <= j
                 closes == {j \in (first + 1)..Len(text) : text[j] = RBRACE}
             IN  IF closes = {} THEN None
                 ELSE LET last == CHOOSE j \in closes : \A m \in closes : m <= j
                      IN  SubSeq(text, first, last)

extract_json(text) ==
    GreedySpan(Replace(Replace(text, FENCE_JSON), FENCE))

\* json.loads on a span: it parses iff the span is one flat object, an
\* opening brace, members only, a closing brace.  Anything else raises.
JsonValid(span) ==
    /\ Len(span) >= 2
    /\ span[1] = LBRACE
    /\ span[Len(span)] = RBRACE
    /\ \A i \in 2..(Len(span) - 1) : span[i].t = "member"

\* The dict json.loads builds: for a repeated key the last member wins.
json_loads(span) ==
    LET idx == {i \in 2..(Len(span) - 1) : span[i].t = "member"}
        keys == {span[i].k : i \in idx}
        lastOf(k) == CHOOSE i \in idx :
                        /\ span[i].k = k
                        /\ \A j \in idx : span[j].k = k => j <= i
    IN  [k \in keys |-> span[lastOf(k)].v]

\* One pass of the loop body of classify_text on a model output: ok iff the
\* loop returns parsed["category"], parsed["reason"] on this output.
AttemptOutcome(out) ==
    LET cleaned_json == extract_json(out)
    IN  IF /\ cleaned_json # None
           /\ JsonValid(cleaned_json)
           /\ {"category", "reason"} \subseteq DOMAIN json_loads(cleaned_json)
        THEN [ok |-> TRUE,
              category |-> json_loads(cleaned_json)["category"],
              reason |-> TextOf(json_loads(cleaned_json)["reason"])]
        ELSE [ok |-> FALSE, category |-> "", reason |-> None]

\* Outputs the external model process is taken to produce (stdout, stripped).
Responses ==
    { <<Prose("Sure"), FENCE_JSON, LBRACE,
        Member("category", "Author Upon Request Only"),
        Member("reason", "on request"), RBRACE, FENCE>>,
      <<LBRACE, Member("category", "Partially Public"),
        Member("reason", "guess"), RBRACE>>,
      <<LBRACE, Member("category", "Author Upon Request Only"), RBRACE>>,
      <<LBRACE, Member("category", "Author Upon Request Only"),
        Member("reason", "on request"), RBRACE, Prose("done"), RBRACE>>,
      <<Prose("I cannot answer")>> }

(***************************************************************************)
(* Files                                                                   *)
(***************************************************************************)
\* File names as <<stem, extension>>.
CsvNames == {<<"a", "csv">>, <<"b", "csv">>}
FileNames == CsvNames \cup {<<"notes", "txt">>}

\* glob(os.path.join(dir, "*.csv")) over a set of names.
GlobCsv(names) == {f \in names : f[2] = "csv"}

\* Column headers an input table may carry.
Headers ==
    { <<<<"i", "d">>, <<" ", "d", "a", "t", "a", " ">>>>,
      <<<<"t", "e", "x", "t">>>> }

IsSpace(c) == c = " "

RECURSIVE LStrip(_)
LStrip(s) == IF s # <<>> /\ IsSpace(Head(s)) THEN LStrip(Tail(s)) ELSE s

RECURSIVE RStrip(_)
RStrip(s) ==
    IF s # <<>> /\ IsSpace(s[Len(s)]) THEN RStrip(SubSeq(s, 1, Len(s) - 1))
    ELSE s

\* str.strip
Strip(s) == RStrip(LStrip(s))

\* df.columns.str.strip()
StripColumns(cols) == [i \in 1..Len(cols) |-> Strip(cols[i])]

\* DATA_COLUMN in df.columns, after the strip
HasDataColumn(cols) ==
    \E i \in 1..Len(cols) : StripColumns(cols)[i] = DATA_COLUMN

InputTables == [cols : Headers, rows : 0..MaxRows]

\* The table of the one file of INPUT_DIR that is not a csv.
NotesTable == [cols |-> <<<<"t", "e", "x", "t">>>>, rows |-> 1]

NoFile == [state |-> "absent"]
NoResult == [category |-> "", reason |-> None]
NoStatus == [kind |-> "none", msg |-> ""]
NoExtraction == [done |-> FALSE, span |-> None, outcome |-> [ok |-> FALSE]]

\* The file df.to_csv(output_path) leaves when it completes.
OutputUnit(table, res) ==
    [state |-> "complete", cols |-> table.cols, rows |-> table.rows,
     category |-> res.category, reason |-> res.reason]

\* What to_csv leaves behind when it stops after k rows (k < rows).
Truncated(table, res, k) ==
    [state |-> "truncated", cols |-> table.cols, rows |-> k,
     category |-> res.category, reason |-> res.reason]

\* The file right after to_csv opened it for writing: zero bytes.
EmptyFile == [state |-> "empty"]

\* pd.read_csv raises on a zero-byte file (no columns to parse).
Readable(file) == file.state \in {"complete", "truncated"}

\* Rows pd.read_csv yields for an output file.
RowsOf(name, file) ==
    [i \in 1..file.rows |->
        [file |-> name, idx |-> i,
         Category |-> file.category, Reason |-> file.reason]]

RECURSIVE Concat(_, _, _)
\* Variant: the first file listed is left out of the concatenation.
Concat_SkipFirst(order, dir, i) ==
    IF i > Len(order) THEN <<>>
    ELSE IF i = 1 THEN Concat(order, dir, 2)
    ELSE RowsOf(order[i], dir[order[i]]) \o Concat(order, dir, i + 1)

\* pd.concat of the tables read from the files, in the order given.
Concat(order, dir, i) ==
    IF i > Len(order) THEN <<>>
    ELSE RowsOf(order[i], dir[order[i]]) \o Concat(order, dir, i + 1)

\* The orders in which glob may list a set of names.
Orders(S) ==
    {s \in [1..Cardinality(S) -> S] : \A i, j \in DOMAIN s : s[i] = s[j] => i = j}

RECURSIVE SumRows(_, _)
SumRows(S, dir) ==
    IF S = {} THEN 0
    ELSE LET f == CHOOSE x \in S : TRUE
         IN  dir[f].rows + SumRows(S \ {f}, dir)

\* Multiset of the rows of a table.
RECURSIVE RowBag(_)
RowBag(rows) ==
    IF rows = <<>> THEN EmptyBag ELSE SetToBag({Head(rows)}) (+) RowBag(Tail(rows))

(***************************************************************************)
(* State                                                                   *)
(***************************************************************************)
VARIABLES
    inputExists,   \* os.path.exists(INPUT_DIR)
    inputDir,      \* files of INPUT_DIR: name -> table
    outDir,        \* files of OUTPUT_DIR: csv name -> file or NoFile
    finalFile,     \* FINAL_OUTPUT: [exists, rows]
    mainPc,        \* "idle" between runs, "pool" inside the with block
    run,           \* number of runs of main started
    exitCode,      \* exit status of the last finished run (-1: none yet)
    remaining,     \* remaining_files of the current run
    reported,      \* futures whose result main has printed
    pc,            \* position of process_file for each name
    calls,         \* call_llama invocations made by the current classify_text
    output,        \* the local `output` of classify_text
    result,        \* (category, reason) returned by classify_text
    status,        \* status string returned by process_file
    good,          \* some invocation of this classify_text call parsed with both fields
    startOut,      \* OUTPUT_DIR as it was when the current run started
    mergeResult,   \* what merge_outputs did in the last run
    submits,       \* executor.submit calls of the current run, per name
    writers,       \* output path -> process_file executions that opened it in this run
    errored,       \* names whose classify_text once ended in the "ERROR" return
    text,          \* a model output handed to extract_json on its own
    extracted      \* what extract_json and the parse made of it

vars == <<inputExists, inputDir, outDir, finalFile, mainPc, run, exitCode,
          remaining, reported, pc, calls, output, result, status, good,
          startOut, mergeResult, submits, writers, errored, text, extracted>>

pureVars == <<text, extracted>>
fsVars == <<inputExists, inputDir, pureVars>>
mainVars == <<mainPc, run, exitCode, remaining, startOut, mergeResult, finalFile,
              submits>>

\* Tokens the texts handed to extract_json on its own are made of.
Alphabet ==
    { FENCE_JSON, FENCE, LBRACE, RBRACE, Prose("note"),
      Member("category", "Author Upon Request Only"),
      Member("reason", "on request") }

Texts == UNION {[1..n -> Alphabet] : n \in 0..MaxLen}

Init ==
    /\ inputExists \in BOOLEAN
    /\ \E names \in SUBSET FileNames :
          /\ inputExists = FALSE => names = {}
          /\ inputDir \in [names -> InputTables]
          /\ \A f \in names \ CsvNames : inputDir[f] = NotesTable
    /\ outDir = [f \in CsvNames |-> NoFile]
    /\ finalFile = [exists |-> FALSE, rows |-> <<>>]
    /\ mainPc = "idle"
    /\ run = 0
    /\ exitCode = -1
    /\ remaining = {}
    /\ reported = {}
    /\ pc = [f \in CsvNames |-> "idle"]
    /\ calls = [f \in CsvNames |-> 0]
    /\ output = [f \in CsvNames |-> None]
    /\ result = [f \in CsvNames |-> NoResult]
    /\ status = [f \in CsvNames |-> NoStatus]
    /\ good = [f \in CsvNames |-> FALSE]
    /\ startOut = [f \in CsvNames |-> NoFile]
    /\ mergeResult = "none"
    /\ submits = [f \in CsvNames |-> 0]
    /\ writers = [f \in CsvNames |-> {}]
    /\ errored = {}
    /\ text = None
    /\ extracted = NoExtraction

(***************************************************************************)
(* main: the checks, the resume filter and the submission to the pool      *)
(***************************************************************************)
\* Variant: the scan of OUTPUT_DIR finds nothing.
ProcessedFiles_Empty(dir) == {}

\* processed_files: base names of glob(OUTPUT_DIR/*.csv)
ProcessedFiles(dir) == {f \in GlobCsv(DOMAIN dir) : dir[f] # NoFile}

\* Variant: the resume filter is dropped.
RemainingFiles_NoFilter(input_files, processed_files) == input_files

\* Variant: the test of the resume filter is inverted.
RemainingFiles_Inverted(input_files, processed_files) ==
    SelectSeq(input_files, LAMBDA f : f \in processed_files)

\* remaining_files: the list of input files whose base name is not in
\* processed_files, in the order glob listed them
RemainingFiles(input_files, processed_files) ==
    SelectSeq(input_files, LAMBDA f : f \notin processed_files)

\* The names the per-name state is kept for.
Units == DOMAIN pc

\* Number of entries of a list equal to f.
Count(list, f) == Cardinality({i \in DOMAIN list : list[i] = f})

ResetWorkers ==
    /\ reported' = {}
    /\ calls' = [f \in Units |-> 0]
    /\ output' = [f \in Units |-> None]
    /\ result' = [f \in Units |-> NoResult]
    /\ status' = [f \in Units |-> NoStatus]
    /\ good' = [f \in Units |-> FALSE]
    /\ writers' = [f \in Units |-> {}]

\* main, lines 169-177: sys.exit(1) when INPUT_DIR is missing or holds no csv.
MainAbort ==
    /\ mainPc = "idle"
    /\ run < MaxRuns
    /\ \/ ~inputExists
       \/ GlobCsv(DOMAIN inputDir) = {}
    /\ run' = run + 1
    /\ exitCode' = 1
    /\ remaining' = {}
    /\ startOut' = outDir
    /\ mergeResult' = "none"
    /\ pc' = [f \in Units |-> "idle"]
    /\ submits' = [f \in Units |-> 0]
    /\ ResetWorkers
    /\ UNCHANGED <<fsVars, outDir, finalFile, mainPc, errored>>

\* main, lines 173-201: list the input, drop the names already in
\* OUTPUT_DIR, submit the rest to the pool.
MainDispatch ==
    /\ mainPc = "idle"
    /\ run < MaxRuns
    /\ inputExists
    /\ GlobCsv(DOMAIN inputDir) # {}
    /\ \E input_files \in Orders(GlobCsv(DOMAIN inputDir)) :
          LET processed_files == ProcessedFiles(outDir)
              remaining_files == RemainingFiles(input_files, processed_files)
          IN  /\ remaining' = {remaining_files[i] : i \in DOMAIN remaining_files}
              /\ submits' = [f \in Units |-> Count(remaining_files, f)]
              /\ pc' = [f \in Units |->
                           IF Count(remaining_files, f) > 0 THEN "queued" ELSE "idle"]
    /\ run' = run + 1
    /\ exitCode' = -1
    /\ startOut' = outDir
    /\ mergeResult' = "none"
    /\ mainPc' = "pool"
    /\ ResetWorkers
    /\ UNCHANGED <<fsVars, outDir, finalFile, errored>>

(***************************************************************************)
(* process_file in a pool worker                                           *)
(***************************************************************************)
\* Names whose process_file is occupying a worker process.
Busy ==
    {f \in Units : pc[f] \in {"classify", "calling", "classified", "raised", "writing"}}

ColumnMissing == [kind |-> "Column missing", msg |-> ""]
Done == [kind |-> "Done", msg |-> ""]
ErrorIn(msg) == [kind |-> "Error in", msg |-> msg]

\* Variant: the check for the data column is missing.
Load_NoColumnCheck(f) ==
    /\ mainPc = "pool"
    /\ pc[f] = "queued"
    /\ Cardinality(Busy) < MAX_WORKERS
    /\ LET df == inputDir[f]
       IN  IF df.rows = 0
           THEN /\ status' = [status EXCEPT ![f] = ErrorIn("IndexError")]
                /\ pc' = [pc EXCEPT ![f] = "done"]
           ELSE /\ pc' = [pc EXCEPT ![f] = "classify"]
                /\ UNCHANGED status
    /\ UNCHANGED <<writers, errored, fsVars, mainVars, outDir, reported, calls, output, result, good>>

\* Variant: a task starts whether or not a worker process is free.
Load_NoPoolLimit(f) ==
    /\ mainPc = "pool"
    /\ pc[f] = "queued"
    /\ LET df == inputDir[f]
       IN  IF ~HasDataColumn(df.cols)
           THEN /\ status' = [status EXCEPT ![f] = ColumnMissing]
                /\ pc' = [pc EXCEPT ![f] = "done"]
           ELSE IF df.rows = 0
           THEN /\ status' = [status EXCEPT ![f] = ErrorIn("IndexError")]
                /\ pc' = [pc EXCEPT ![f] = "done"]
           ELSE /\ pc' = [pc EXCEPT ![f] = "classify"]
                /\ UNCHANGED status
    /\ UNCHANGED <<writers, errored, fsVars, mainVars, outDir, reported, calls, output, result, good>>

\* process_file, lines 118-128: read the table, strip the headers, look for
\* the data column, take the text of the first row.
Load(f) ==
    /\ mainPc = "pool"
    /\ pc[f] = "queued"
    /\ Cardinality(Busy) < MAX_WORKERS
    /\ LET df == inputDir[f]
       IN  IF ~HasDataColumn(df.cols)
           THEN /\ status' = [status EXCEPT ![f] = ColumnMissing]
                /\ pc' = [pc EXCEPT ![f] = "done"]
           ELSE IF df.rows = 0
           THEN /\ status' = [status EXCEPT ![f] = ErrorIn("IndexError")]
                /\ pc' = [pc EXCEPT ![f] = "done"]
           ELSE /\ pc' = [pc EXCEPT ![f] = "classify"]
                /\ UNCHANGED status
    /\ UNCHANGED <<writers, errored, fsVars, mainVars, outDir, reported, calls, output, result, good>>

\* for _ in range(MAX_RETRY): another pass is made while fewer than
\* MAX_RETRY invocations were made.
LoopContinues(n) == n < MAX_RETRY

\* classify_text, line 97: call_llama starts the external process.
CallStart(f) ==
    /\ pc[f] = "classify"
    /\ LoopContinues(calls[f])
    /\ calls' = [calls EXCEPT ![f] = @ + 1]
    /\ pc' = [pc EXCEPT ![f] = "calling"]
    /\ UNCHANGED <<writers, errored, fsVars, mainVars, outDir, reported, output, result, status, good>>

\* Variant: a parsed output does not end the loop before its last pass.
AfterAttempt_NoEarlyReturn(out, n) ==
    LET o == AttemptOutcome(out)
    IN  IF LoopContinues(n)
        THEN [pc |-> "classify", result |-> NoResult]
        ELSE IF o.ok
        THEN [pc |-> "classified",
              result |-> [category |-> o.category, reason |-> o.reason]]
        ELSE [pc |-> "classified",
              result |-> [category |-> "ERROR", reason |-> out]]

\* What classify_text does with the output of one invocation, lines 98-109:
\* return the parsed pair, or sleep and loop, or fall out of the loop and
\* return "ERROR" with the last output.
AfterAttempt(out, n) ==
    LET o == AttemptOutcome(out)
    IN  IF o.ok
        THEN [pc |-> "classified",
              result |-> [category |-> o.category, reason |-> o.reason]]
        ELSE IF LoopContinues(n)
        THEN [pc |-> "classify", result |-> NoResult]
        ELSE [pc |-> "classified",
              result |-> [category |-> "ERROR", reason |-> out]]

\* call_llama returns the stripped stdout of the process (whatever its exit
\* status: subprocess.run is called without check=True).
CallReturnFrom(f, outs) ==
    /\ pc[f] = "calling"
    /\ \E out \in outs :
          LET next == AfterAttempt(out, calls[f])
          IN  /\ output' = [output EXCEPT ![f] = out]
              /\ good' = [good EXCEPT ![f] = @ \/ AttemptOutcome(out).ok]
              /\ pc' = [pc EXCEPT ![f] = next.pc]
              /\ result' = [result EXCEPT ![f] = next.result]
              /\ errored' = IF next.pc = "classified" /\ ~AttemptOutcome(out).ok
                            THEN errored \cup {f} ELSE errored
    /\ UNCHANGED <<writers, fsVars, mainVars, outDir, reported, calls, status>>

CallReturn(f) == CallReturnFrom(f, Responses)

\* subprocess.run raises OSError when the ollama executable cannot be
\* started; nothing in classify_text catches it (the try covers json.loads
\* only), so it reaches the except clause of process_file, line 139.
CallRaise(f) ==
    /\ pc[f] = "calling"
    /\ pc' = [pc EXCEPT ![f] = "raised"]
    /\ UNCHANGED <<writers, errored, fsVars, mainVars, outDir, reported, calls, output, result,
                   status, good>>

\* The locals of classify_text are gone once process_file goes on.
DropLocals(f) ==
    /\ calls' = [calls EXCEPT ![f] = 0]
    /\ output' = [output EXCEPT ![f] = None]
    /\ good' = [good EXCEPT ![f] = FALSE]

\* process_file, lines 139-140: except Exception returns "Error in ...".
Except(f) ==
    /\ pc[f] = "raised"
    /\ pc' = [pc EXCEPT ![f] = "done"]
    /\ status' = [status EXCEPT ![f] = ErrorIn("FileNotFoundError")]
    /\ DropLocals(f)
    /\ UNCHANGED <<writers, errored, fsVars, mainVars, outDir, reported, result>>

\* Variant: every unit is given the same output path.
OutputPath_SameForAll(f) == <<"a", "csv">>

\* output_path = os.path.join(OUTPUT_DIR, os.path.basename(input_path)):
\* the place in OUTPUT_DIR that carries the name of the input file.
OutputPath(f) == f

\* df.to_csv(output_path), line 135: the file is opened for writing, which
\* creates or truncates it.
WriteOpen(f) ==
    /\ pc[f] = "classified"
    /\ outDir' = [outDir EXCEPT ![OutputPath(f)] = EmptyFile]
    /\ writers' = [writers EXCEPT ![OutputPath(f)] = @ \cup {f}]
    /\ pc' = [pc EXCEPT ![f] = "writing"]
    /\ DropLocals(f)
    /\ UNCHANGED <<errored, fsVars, mainVars, reported, result, status>>

\* to_csv completes; process_file returns "Done: ...".
WriteFinish(f) ==
    /\ pc[f] = "writing"
    /\ outDir' = [outDir EXCEPT ![OutputPath(f)] = OutputUnit(inputDir[f], result[f])]
    /\ status' = [status EXCEPT ![f] = Done]
    /\ pc' = [pc EXCEPT ![f] = "done"]
    /\ UNCHANGED <<writers, errored, fsVars, mainVars, reported, calls, output, result, good>>

\* to_csv raises while writing (disk full, I/O error): the except clause
\* returns "Error in ..." and the file stays as far as it was written.
WriteFail(f) ==
    /\ pc[f] = "writing"
    /\ \/ UNCHANGED outDir
       \/ \E k \in 0..(inputDir[f].rows - 1) :
             outDir' = [outDir EXCEPT ![OutputPath(f)] =
                                  Truncated(inputDir[f], result[f], k)]
    /\ status' = [status EXCEPT ![f] = ErrorIn("OSError")]
    /\ pc' = [pc EXCEPT ![f] = "done"]
    /\ UNCHANGED <<writers, errored, fsVars, mainVars, reported, calls, output, result, good>>

\* Variant: only the futures that ended "Done" are collected.
Report_OnlyDone(f) ==
    /\ mainPc = "pool"
    /\ pc[f] = "done"
    /\ status[f] = Done
    /\ f \in remaining \ reported
    /\ reported' = reported \cup {f}
    /\ UNCHANGED <<writers, errored, fsVars, mainVars, outDir, pc, calls, output, result, status, good>>

\* main, lines 203-204: print(future.result()) as each future completes.
Report(f) ==
    /\ mainPc = "pool"
    /\ pc[f] = "done"
    /\ f \in remaining \ reported
    /\ reported' = reported \cup {f}
    /\ UNCHANGED <<writers, errored, fsVars, mainVars, outDir, pc, calls, output, result, status, good>>

(***************************************************************************)
(* merge_outputs, called by main after the with block                      *)
(***************************************************************************)
\* csv_files of merge_outputs: glob(OUTPUT_DIR/*.csv)
CsvFiles(dir) == {f \in GlobCsv(DOMAIN dir) : dir[f] # NoFile}

\* Variant: merge_outputs is called without waiting for the futures.
PoolDone_NoWait == mainPc = "pool"

\* All futures collected: the with block is left.
PoolDone == mainPc = "pool" /\ reported = remaining

\* Variant: without the early return an empty merged file is written.
MergeSkip_WritesEmpty ==
    /\ PoolDone
    /\ CsvFiles(outDir) = {}
    /\ finalFile' = [exists |-> TRUE, rows |-> <<>>]
    /\ mergeResult' = "skipped"
    /\ mainPc' = "idle"
    /\ exitCode' = 0
    /\ UNCHANGED <<submits, writers, errored, fsVars, outDir, run, remaining, startOut,
                   reported, pc, calls, output, result, status, good>>

\* merge_outputs, lines 151-153: nothing to merge.
MergeSkip ==
    /\ PoolDone
    /\ CsvFiles(outDir) = {}
    /\ mergeResult' = "skipped"
    /\ mainPc' = "idle"
    /\ exitCode' = 0
    /\ UNCHANGED <<submits, writers, errored, fsVars, outDir, finalFile, run, remaining, startOut,
                   reported, pc, calls, output, result, status, good>>

\* merge_outputs, lines 155-158: read every file, concatenate, write.
MergeWrite ==
    /\ PoolDone
    /\ CsvFiles(outDir) # {}
    /\ \A f \in CsvFiles(outDir) : Readable(outDir[f])
    /\ \E csv_files \in Orders(CsvFiles(outDir)) :
          finalFile' = [exists |-> TRUE, rows |-> Concat(csv_files, outDir, 1)]
    /\ mergeResult' = "written"
    /\ mainPc' = "idle"
    /\ exitCode' = 0
    /\ UNCHANGED <<submits, writers, errored, fsVars, outDir, run, remaining, startOut,
                   reported, pc, calls, output, result, status, good>>

\* pd.read_csv raises on a file it cannot parse: merge_outputs and main end
\* with the exception, the interpreter exits with status 1.
MergeRaise ==
    /\ PoolDone
    /\ \E f \in CsvFiles(outDir) : ~Readable(outDir[f])
    /\ mergeResult' = "raised"
    /\ mainPc' = "idle"
    /\ exitCode' = 1
    /\ UNCHANGED <<submits, writers, errored, fsVars, outDir, finalFile, run, remaining, startOut,
                   reported, pc, calls, output, result, status, good>>

Next ==
    \/ MainAbort
    \/ MainDispatch
    \/ \E f \in Units : Load(f)
    \/ \E f \in Units : CallStart(f)
    \/ \E f \in Units : CallReturn(f)
    \/ \E f \in Units : CallRaise(f)
    \/ \E f \in Units : Except(f)
    \/ \E f \in Units : WriteOpen(f)
    \/ \E f \in Units : WriteFinish(f)
    \/ \E f \in Units : WriteFail(f)
    \/ \E f \in Units : Report(f)
    \/ MergeSkip
    \/ MergeWrite
    \/ MergeRaise

Spec == Init /\ [][Next]_vars

\* A step of a worker or of the coordinator inside a run.
Progress ==
    \/ \E f \in CsvNames :
          \/ Load(f) \/ CallStart(f) \/ CallReturn(f) \/ CallRaise(f)
          \/ Except(f) \/ WriteOpen(f) \/ WriteFinish(f) \/ WriteFail(f)
          \/ Report(f)
    \/ MergeSkip \/ MergeWrite \/ MergeRaise

\* As long as a worker or the coordinator can take a step inside a run, one
\* of them does: the processes keep running and every external model
\* process ends, by returning or by failing to start.
Fairness == WF_vars(Progress)

FairSpec == Spec /\ Fairness

(***************************************************************************)
(* One run over more input files than the pool has workers                 *)
(***************************************************************************)
PoolNames ==
    { <<"p1", "csv">>, <<"p2", "csv">>, <<"p3", "csv">>, <<"p4", "csv">>,
      <<"p5", "csv">>, <<"p6", "csv">>, <<"p7", "csv">> }

PoolTable == [cols |-> <<<<"i", "d">>, <<" ", "d", "a", "t", "a", " ">>>>, rows |-> 1]

\* The model answers every prompt of this run with the same fenced object.
PoolResponses ==
    { <<Prose("Sure"), FENCE_JSON, LBRACE,
        Member("category", "Author Upon Request Only"),
        Member("reason", "on request"), RBRACE, FENCE>> }

InitPool ==
    /\ inputExists = TRUE
    /\ inputDir = [f \in PoolNames |-> PoolTable]
    /\ outDir = [f \in PoolNames |-> NoFile]
    /\ finalFile = [exists |-> FALSE, rows |-> <<>>]
    /\ mainPc = "idle"
    /\ run = 0
    /\ exitCode = -1
    /\ remaining = {}
    /\ reported = {}
    /\ pc = [f \in PoolNames |-> "idle"]
    /\ calls = [f \in PoolNames |-> 0]
    /\ output = [f \in PoolNames |-> None]
    /\ result = [f \in PoolNames |-> NoResult]
    /\ status = [f \in PoolNames |-> NoStatus]
    /\ good = [f \in PoolNames |-> FALSE]
    /\ startOut = [f \in PoolNames |-> NoFile]
    /\ mergeResult = "none"
    /\ submits = [f \in PoolNames |-> 0]
    /\ writers = [f \in PoolNames |-> {}]
    /\ errored = {}
    /\ text = None
    /\ extracted = NoExtraction

PoolCallReturn(f) == CallReturnFrom(f, PoolResponses)

NextPool ==
    \/ MainDispatch
    \/ \E f \in Units : Load(f)
    \/ \E f \in Units : CallStart(f)
    \/ \E f \in Units : PoolCallReturn(f)
    \/ \E f \in Units : WriteOpen(f)
    \/ \E f \in Units : WriteFinish(f)

SpecPool == InitPool /\ [][NextPool]_vars

(***************************************************************************)
(* extract_json and the parse of classify_text on texts of their own       *)
(***************************************************************************)
sysVars == <<inputExists, inputDir, outDir, finalFile, mainPc, run, exitCode,
             remaining, reported, pc, calls, output, result, status, good,
             startOut, mergeResult, submits, writers, errored>>

InitExtract ==
    /\ inputExists = FALSE
    /\ inputDir = <<>>
    /\ outDir = [f \in CsvNames |-> NoFile]
    /\ finalFile = [exists |-> FALSE, rows |-> <<>>]
    /\ mainPc = "idle"
    /\ run = 0
    /\ exitCode = -1
    /\ remaining = {}
    /\ reported = {}
    /\ pc = [f \in CsvNames |-> "idle"]
    /\ calls = [f \in CsvNames |-> 0]
    /\ output = [f \in CsvNames |-> None]
    /\ result = [f \in CsvNames |-> NoResult]
    /\ status = [f \in CsvNames |-> NoStatus]
    /\ good = [f \in CsvNames |-> FALSE]
    /\ startOut = [f \in CsvNames |-> NoFile]
    /\ mergeResult = "none"
    /\ submits = [f \in CsvNames |-> 0]
    /\ writers = [f \in CsvNames |-> {}]
    /\ errored = {}
    /\ text \in Texts
    /\ extracted = NoExtraction

\* classify_text, lines 98-105, on the text: extract_json, then json.loads
\* and the two lookups.
ExtractStep ==
    /\ ~extracted.done
    /\ extracted' = [done |-> TRUE, span |-> extract_json(text),
                     outcome |-> AttemptOutcome(text)]
    /\ UNCHANGED <<sysVars, text>>

NextExtract == ExtractStep

SpecExtract == InitExtract /\ [][NextExtract]_vars

(***************************************************************************)
(* Properties                                                              *)
(***************************************************************************)
Dispatched(f) == f \in remaining

ClassifyOver(f) == pc[f] \in {"classified", "raised"}

\* C1: one call of classify_text makes at most MAX_RETRY invocations of
\* call_llama, and no invocation is in flight once an earlier one of the
\* same call gave an output that parsed with both category and reason.
C1_RetryBound ==
    \A f \in CsvNames :
        /\ calls[f] <= MAX_RETRY
        /\ pc[f] \in {"classify", "calling"} => ~good[f]

\* A call that succeeded at its second invocation and stopped there.
C1_Witness ==
    \E f \in CsvNames : pc[f] = "classified" /\ good[f] /\ calls[f] = 2

\* C2: every output unit process_file wrote carries a Category that is one
\* of the seven taxonomy labels or "ERROR".
C2_CategoryInTaxonomy ==
    \A f \in CsvNames :
        outDir[f].state \in {"complete", "truncated"}
            => outDir[f].category \in Taxonomy \cup {"ERROR"}

\* C3 as stated: once a second run has started, it dispatched nothing and
\* the output directory stays as the first run left it.
C3_SecondRunIdle ==
    run >= 2 => remaining = {} /\ outDir = startOut

\* C3 amended: the second run dispatches exactly the input units the first
\* run left without an output file and leaves every file of the first run
\* as it was; when the first run left a file for every input unit it
\* dispatches none and the output directory is unchanged.
C3_SecondRunResumes ==
    run >= 2 =>
        LET input_files == GlobCsv(DOMAIN inputDir)
        IN  /\ remaining = {f \in input_files : startOut[f] = NoFile}
            /\ \A f \in CsvNames : startOut[f] # NoFile => outDir[f] = startOut[f]
            /\ (\A f \in input_files : startOut[f] # NoFile)
                  => remaining = {} /\ outDir = startOut

\* A finished second run that kept one unit of the first run and processed
\* another that the first run had left without a file.
C3_Witness ==
    /\ run = 2
    /\ mainPc = "idle"
    /\ \E f, g \in CsvNames :
          /\ startOut[f].state = "complete"
          /\ g \in remaining
          /\ outDir[g].state = "complete"

\* C4: a unit whose output file exists when a run starts is not handed to a
\* worker in that run and its file is the same at every later moment of
\* the run, whatever becomes of the other units.
C4_ExistingOutputUntouched ==
    \A f \in CsvNames :
        startOut[f] # NoFile =>
            /\ ~Dispatched(f)
            /\ pc[f] = "idle"
            /\ calls[f] = 0
            /\ outDir[f] = startOut[f]

\* A run in which one unit had its file from before while another unit,
\* dispatched, ended with an error status.
C4_Witness ==
    \E f, g \in CsvNames :
        /\ startOut[f] # NoFile
        /\ Dispatched(g)
        /\ pc[g] = "done"
        /\ status[g].kind = "Error in"

\* C5: when a call of classify_text is over it has produced exactly one of
\* two outcomes: the (category, reason) parsed from the output of its first
\* successful invocation, or, after MAX_RETRY failed invocations, "ERROR"
\* with the raw output of the last one.
C5_OneOutcome ==
    \A f \in CsvNames :
        ClassifyOver(f) =>
            \/ /\ good[f]
               /\ AttemptOutcome(output[f]).ok
               /\ result[f] = [category |-> AttemptOutcome(output[f]).category,
                               reason |-> AttemptOutcome(output[f]).reason]
            \/ /\ ~good[f]
               /\ calls[f] = MAX_RETRY
               /\ result[f] = [category |-> "ERROR", reason |-> output[f]]

\* C6: a dispatched unit without the data column gets the status "Column
\* missing" with no model invocation and no output file, and a unit that
\* runs beside it ends with its own status and, when done, its own output.
C6_MissingColumn ==
    \A f \in CsvNames :
        (Dispatched(f) /\ ~HasDataColumn(inputDir[f].cols)) =>
            /\ pc[f] \in {"queued", "done"}
            /\ calls[f] = 0
            /\ outDir[f] = NoFile
            /\ pc[f] = "done" => status[f] = ColumnMissing
            /\ \A g \in remaining \ {f} :
                  (pc[g] = "done" /\ HasDataColumn(inputDir[g].cols)) =>
                      /\ status[g].kind \in {"Done", "Error in"}
                      /\ status[g] = Done =>
                            outDir[g] = OutputUnit(inputDir[g], result[g])

\* One unit reported "Column missing" while the other was classified and
\* written in the same run.
C6_Witness ==
    \E f, g \in CsvNames :
        /\ Dispatched(f) /\ Dispatched(g)
        /\ status[f] = ColumnMissing
        /\ outDir[f] = NoFile
        /\ status[g] = Done
        /\ outDir[g].state = "complete"

\* C7: between runs every output location holds either no file or the
\* complete output unit, so that a later run never counts a partial file as
\* a processed unit.
C7_AllOrNothing ==
    mainPc = "idle" =>
        \A f \in CsvNames : outDir[f].state \in {"absent", "complete"}

\* C8: when merge_outputs has written the merged file, its row count is the
\* sum of the row counts of the files in the output directory; a merge over
\* an output directory that got no new file writes the same multiset of rows
\* as the merge before it.
C8_AfterMerge ==
    (mainPc = "idle" /\ mergeResult = "written") =>
        /\ finalFile.exists
        /\ Len(finalFile.rows) = SumRows(CsvFiles(outDir), outDir)

C8_Remerge ==
    (/\ PoolDone
     /\ outDir = startOut
     /\ finalFile.exists
     /\ mergeResult' = "written")
        => RowBag(finalFile'.rows) = RowBag(finalFile.rows)

C9_ExitStatus ==
    (run >= 1 /\ mainPc = "idle") =>
        IF ~inputExists \/ GlobCsv(DOMAIN inputDir) = {}
        THEN /\ exitCode # 0
             /\ remaining = {}
             /\ mergeResult = "none"
             /\ outDir = startOut
             /\ ~finalFile.exists
        ELSE exitCode = 0

\* C10: a model invocation that cannot be completed counts as one failed
\* attempt inside classify_text; process_file never returns an error status
\* that carries the invocation's own exception.
C10_InvocationFailureContained ==
    \A f \in CsvNames :
        pc[f] = "done" => status[f] # ErrorIn("FileNotFoundError")

\* The text is one object with the two fields, with nothing but fence
\* markers, prose and stray braces around it.
IsWrappedObject(t) ==
    \E i \in 1..(Len(t) - 3) :
        /\ t[i] = LBRACE
        /\ t[i + 3] = RBRACE
        /\ {t[i + 1].t, t[i + 2].t} = {"member"}
        /\ {t[i + 1].k, t[i + 2].k} = {"category", "reason"}
        /\ \A j \in (1..Len(t)) \ (i..(i + 3)) : t[j].t # "member"

\* The value the object embedded in the text gives the key.
EmbeddedValue(t, key) ==
    LET i == CHOOSE j \in 1..Len(t) : t[j].t = "member" /\ t[j].k = key
    IN  t[i].v

\* The text holds a "{" with a "}" somewhere after it.
HasBraceSpan(t) ==
    \E i, j \in 1..Len(t) : i < j /\ t[i] = LBRACE /\ t[j] = RBRACE

\* C11: for a text that is a valid two-field object wrapped in fence
\* markers and stray prose, extract_json and the parse give back exactly
\* the embedded object; for a text with no "{"..."}" span extract_json
\* returns None.
C11_ExtractRecovers ==
    extracted.done =>
        /\ IsWrappedObject(text) =>
              /\ extracted.outcome.ok
              /\ extracted.outcome.category = EmbeddedValue(text, "category")
              /\ extracted.outcome.reason = TextOf(EmbeddedValue(text, "reason"))
        /\ ~HasBraceSpan(text) => extracted.span = None

\* C12: in every run the units submitted to the pool are exactly the input
\* csv files with no file of their name in the output directory at run
\* start, each submitted once and no other name submitted at all.
C12_DispatchExact ==
    run >= 1 =>
        /\ \A f \in CsvNames :
              submits[f] =
                  IF f \in GlobCsv(DOMAIN inputDir) /\ startOut[f] = NoFile
                  THEN 1 ELSE 0
        /\ remaining = {f \in CsvNames : submits[f] > 0}

\* A second run that submitted one unit and left out one that had a file.
C12_Witness ==
    /\ run = 2
    /\ mainPc = "pool"
    /\ \E f, g \in CsvNames :
          /\ submits[f] = 1
          /\ startOut[g] # NoFile
          /\ g \in GlobCsv(DOMAIN inputDir)
          /\ submits[g] = 0

\* C13: within one run every output path is opened for writing by at most
\* one execution of process_file, whatever the interleaving of the workers.
C13_OneWriterPerPath ==
    \A p \in CsvNames :
        /\ Cardinality(writers[p]) <= 1
        /\ \A f \in writers[p] : submits[f] = 1

\* Two workers writing at the same moment, each to its own path.
C13_Witness ==
    \E f, g \in CsvNames :
        /\ f # g
        /\ pc[f] = "writing" /\ pc[g] = "writing"
        /\ writers[f] = {f} /\ writers[g] = {g}

\* C14: once merge_outputs has started in a run, every dispatched unit has
\* reported and no process_file is running, and from then until the next
\* run starts the output directory does not change.
C14_WorkersFinished ==
    mergeResult # "none" =>
        /\ reported = remaining
        /\ \A f \in CsvNames : pc[f] \in {"idle", "done"}

C14_NoWriteAfterMerge ==
    (mergeResult # "none" /\ run' = run) => outDir' = outDir

C14_MergeAfterWorkers == [](C14_WorkersFinished) /\ [][C14_NoWriteAfterMerge]_vars

\* A merge that ran after two dispatched units had both reported.
C14_Witness ==
    /\ mergeResult = "written"
    /\ Cardinality(remaining) = 2
    /\ reported = remaining
    /\ \A f \in remaining : pc[f] = "done"

\* C15: no failure of a unit leaves that unit: every process_file that has
\* returned gave one status string, and a run that dispatched units ends
\* with every one of them reported and with merge_outputs carried through.
C15_FailuresContained ==
    /\ \A f \in CsvNames :
          pc[f] = "done" => status[f].kind \in {"Done", "Column missing", "Error in"}
    /\ (mainPc = "idle" /\ run >= 1 /\ remaining # {}) =>
          /\ reported = remaining
          /\ mergeResult \in {"skipped", "written"}

\* Model invocations in flight.
InFlight == {f \in Units : pc[f] = "calling"}

\* C16: at every moment at most MAX_WORKERS process_file executions occupy
\* a worker and at most MAX_WORKERS model invocations are in flight.
C16_InvocationsBounded ==
    /\ Cardinality(Busy) <= MAX_WORKERS
    /\ Cardinality(InFlight) <= MAX_WORKERS

\* MAX_WORKERS invocations in flight while a further unit waits in the queue.
C16_Witness ==
    /\ Cardinality(InFlight) = MAX_WORKERS
    /\ \E f \in Units : pc[f] = "queued"

\* C17: with workers that keep running and model invocations that all end,
\* every dispatched unit is eventually reported and the run then comes to
\* its merge and ends; and while an invocation has not returned the
\* coordinator is still inside the pool and has not started the merge.
C17_RunEnds ==
    (mainPc = "pool") ~>
        (mainPc = "idle" /\ mergeResult # "none" /\ reported = remaining)

C17_BlockedWhileCalling ==
    \A f \in CsvNames : pc[f] = "calling" => (mainPc = "pool" /\ mergeResult = "none")

C17_Termination ==
    /\ C17_RunEnds
    /\ [](C17_BlockedWhileCalling)

\* A run that ended after its two units, one of them retried to the last
\* attempt, were reported and the merge had run.
C17_Witness ==
    /\ mainPc = "idle"
    /\ mergeResult # "none"
    /\ Cardinality(remaining) = 2
    /\ reported = remaining
    /\ errored # {}

\* Multiset of the rows of all the files of a set of names.
RECURSIVE DirBag(_, _)
DirBag(S, dir) ==
    IF S = {} THEN EmptyBag
    ELSE LET f == CHOOSE x \in S : TRUE
         IN  RowBag(RowsOf(f, dir[f])) (+) DirBag(S \ {f}, dir)

\* C18: a merge_outputs that finds no file in the output directory is
\* skipped and leaves the merged file as it was, absent if it was absent;
\* one that finds files and returns has replaced the merged file by the
\* rows of all the files then present.
C18_MergeStep ==
    (PoolDone /\ mainPc' = "idle") =>
        IF CsvFiles(outDir) = {}
        THEN mergeResult' = "skipped" /\ finalFile' = finalFile
        ELSE mergeResult' = "written" =>
                /\ finalFile'.exists
                /\ RowBag(finalFile'.rows) = DirBag(CsvFiles(outDir), outDir)

C19_ErrorUnitsWritten ==
    \A f \in errored :
        /\ pc[f] \in {"classified", "writing", "done", "idle"}
        /\ pc[f] \in {"done", "idle"} =>
              /\ outDir[f] # NoFile
              /\ outDir[f].state = "complete"
              /\ outDir[f].category = "ERROR"
        /\ pc[f] = "idle" => f \notin remaining

\* C20: a unit whose process_file returned "Column missing" or "Error in"
\* has no output file, and a run leaves an input unit out of its dispatch
\* only if a file of its name was in the output directory at run start.
C20_FailedUnitsRetried ==
    /\ \A f \in CsvNames :
          (pc[f] = "done" /\ status[f].kind \in {"Column missing", "Error in"})
              => outDir[f] = NoFile
    /\ run >= 1 =>
          \A f \in GlobCsv(DOMAIN inputDir) :
              f \notin remaining => startOut[f] # NoFile

====
